---- MODULE Spec2Model ----
(***************************************************************************)
(* koa-react-ssr-example: the comment routes of server/router.js, the      *)
(* render helpers of server/ssr.js and the cookie session they work on.    *)
(*                                                                         *)
(* The session is koa-session's default cookie session: its content is     *)
(* the JSON object the client holds in its cookie.  Each request decodes   *)
(* that object into ctx.session, the handler works on it, and the session  *)
(* middleware writes it back into the cookie when the handler has          *)
(* finished, whether it returned or threw.  In Spec a client has at most   *)
(* one request outstanding per session, as the Comments page does (it      *)
(* awaits each call), and the requests of different sessions interleave.   *)
(***************************************************************************)
EXTENDS Integers, Sequences, FiniteSets, TLC

\* ------------------------------------------------------------------ bounds
MaxComments == 2
MaxClock == 1

Sessions == {"s1", "s2"}

\* ------------------------------------------------------- JavaScript values
\* A JSON value the client can put in a body field: its typeof and its text.
Undefined == [t |-> "undefined", v |-> "undefined"]
Null == [t |-> "null", v |-> "null"]
Str(s) == [t |-> "string", v |-> s]
Num(n) == [t |-> "number", v |-> n]

\* The values a client supplies in the `comment` field.
CommentValues ==
  { Str(""), Str("   "), Str("a"), Str("b"), Num("0"), Num("5"), Null }

\* JavaScript objects are functions from their field names.
EmptyObject == [k \in {} |-> Undefined]
Field(k, x) == [f \in {k} |-> x]
Get(o, k) == IF k \in DOMAIN o THEN o[k] ELSE Undefined
SetField(o, k, x) == [f \in (DOMAIN o) \cup {k} |-> IF f = k THEN x ELSE o[f]]

\* The request bodies: {} and {"comment": v}.
Bodies == {EmptyObject} \cup { Field("comment", x) : x \in CommentValues }

\* ToBoolean with every string truthy, the empty one included.
ToBoolean_EmptyStringTruthy(x) ==
  CASE x.t = "undefined" -> FALSE
    [] x.t = "null" -> FALSE
    [] x.t = "boolean" -> x.v = "true"
    [] x.t = "number" -> x.v # "0"
    [] OTHER -> TRUE

\* !x of JavaScript is ~ToBoolean(x).
ToBoolean(x) ==
  CASE x.t = "undefined" -> FALSE
    [] x.t = "null" -> FALSE
    [] x.t = "boolean" -> x.v = "true"
    [] x.t = "number" -> x.v # "0"
    [] x.t = "string" -> x.v # ""
    [] OTHER -> TRUE

\* new Date(0) for new Date(): the epoch, whatever the clock reads.
NewDate_Epoch(ms) == [t |-> "Date", ms |-> 0]

\* new Date() at clock value ms, and what JSON.stringify makes of it.
NewDate(ms) == [t |-> "Date", ms |-> ms]
DateToJSON(d) == [t |-> "string", ms |-> d.ms]
DateParse(d) == d.ms

\* JSON.stringify followed by JSON.parse, as the cookie and the response
\* body go over the wire: a Date comes back as its ISO string.
CommentToJSON(c) ==
  [date |-> IF c.date.t = "Date" THEN DateToJSON(c.date) ELSE c.date,
   comment |-> c.comment]
CommentsToJSON(cs) == [i \in 1..Len(cs) |-> CommentToJSON(cs[i])]
SessionToJSON(sess) ==
  [k \in DOMAIN sess |-> IF k = "comments" THEN CommentsToJSON(sess[k]) ELSE sess[k]]

\* ctx.session.comments || []  (an array, even an empty one, is truthy)
CommentsOrEmpty(sess) ==
  IF "comments" \in DOMAIN sess THEN sess["comments"] ELSE << >>

\* No body set, nothing thrown.
NoBody == "none"
NoError == [statusCode |-> -1, error |-> "", message |-> ""]

\* An Error that is no Boom error: it has a message and no output.payload.
PlainError(message) == [statusCode |-> -2, error |-> "Error", message |-> message]
IsBoom(err) == err.statusCode >= 0

\* The rendering engine renders every page, or fails on one with a message.
NoFailure == [page |-> "none", message |-> ""]

\* --------------------------------------------------------------- rendering
\* nextEngine.renderToHTML: the page of the screen with these props.
RenderToHTML(page, props, options) ==
  [page |-> page, props |-> props, options |-> options]

NoOptions == "undefined"
StaticMarkup == "staticMarkup"

\* ctx.render without the default of props.
render_NoDefault(ctx, screen, props, options) ==
  LET html == RenderToHTML("/" \o screen, props, options)
  IN IF ctx.failing.page = "/" \o screen
     THEN [ctx EXCEPT !.thrown = PlainError(ctx.failing.message)]
     ELSE [ctx EXCEPT !.body = html,
                      !.status = IF ctx.explicit THEN ctx.status ELSE 200,
                      !.returned = html,
                      !.renders = @ + 1]

\* ctx.render({screen, props = {}, options}): the body is the HTML, which is
\* also what the call returns; the status is Koa's 200 for a body unless
\* the handler has set one.
render(ctx, screen, props, options) ==
  LET html == RenderToHTML("/" \o screen,
                           IF props = Undefined THEN EmptyObject ELSE props,
                           options)
  IN IF ctx.failing.page = "/" \o screen
     THEN [ctx EXCEPT !.thrown = PlainError(ctx.failing.message)]
     ELSE [ctx EXCEPT !.body = html,
                      !.status = IF ctx.explicit THEN ctx.status ELSE 200,
                      !.returned = html,
                      !.renders = @ + 1]

\* Boom.badData(message).output.payload
BadDataStatus == 422
BadData(message) ==
  [statusCode |-> BadDataStatus, error |-> "Unprocessable Entity", message |-> message]

\* renderBoomError without the assignment of ctx.status.
renderBoomError_NoStatus(ctx, payload) ==
  LET c1 == [ctx EXCEPT !.translated = @ + 1]
  IN render(c1,
            IF payload.statusCode >= 500 THEN "errors/500" ELSE "errors/400",
            [statusCode |-> payload.statusCode,
             error |-> payload.error,
             message |-> payload.message],
            StaticMarkup)

\* renderBoomError choosing the server error page from 500 up, exclusive.
renderBoomError_Above500(ctx, payload) ==
  LET status == IF payload.statusCode # 0 THEN payload.statusCode ELSE 500
      c1 == [ctx EXCEPT !.status = status, !.explicit = TRUE,
                        !.translated = @ + 1]
  IN render(c1,
            IF status > 500 THEN "errors/500" ELSE "errors/400",
            [statusCode |-> payload.statusCode,
             error |-> payload.error,
             message |-> payload.message],
            StaticMarkup)

\* renderBoomError rendering the page and then rendering it again.
renderBoomError_Twice(ctx, payload) ==
  LET status == IF payload.statusCode # 0 THEN payload.statusCode ELSE 500
      c1 == [ctx EXCEPT !.status = status, !.explicit = TRUE,
                        !.translated = @ + 1]
      screen == IF status >= 500 THEN "errors/500" ELSE "errors/400"
      props == [statusCode |-> payload.statusCode,
                error |-> payload.error,
                message |-> payload.message]
  IN render(render(c1, screen, props, StaticMarkup), screen, props, StaticMarkup)

\* ctx.renderBoomError(err), err.output.payload being payload
renderBoomError(ctx, payload) ==
  LET status == IF payload.statusCode # 0 THEN payload.statusCode ELSE 500
      c1 == [ctx EXCEPT !.status = status, !.explicit = TRUE,
                        !.translated = @ + 1]
  IN render(c1,
            IF status >= 500 THEN "errors/500" ELSE "errors/400",
            [statusCode |-> payload.statusCode,
             error |-> payload.error,
             message |-> payload.message],
            StaticMarkup)

\* ---------------------------------------------------------------- handlers
\* The context a handler gets: the session decoded from the cookie, the
\* parsed request body, Koa's initial 404 and no body, ctx.respond not
\* disabled; what ctx.render returned, the number of pages ctx.render has
\* set as body, the number of ctx.renderBoomError calls, who wrote to the
\* response so far, and the page the engine fails on, if any.
NewCtx(sess, reqBody) ==
  [session |-> sess, reqBody |-> reqBody, status |-> 404, explicit |-> FALSE,
   body |-> NoBody, thrown |-> NoError, respond |-> TRUE, returned |-> NoBody,
   renders |-> 0, translated |-> 0, writers |-> << >>, failing |-> NoFailure]

\* router.get("/")
HandleHome(ctx) == render(ctx, "Home", Undefined, NoOptions)

\* The Comments view initializing the session as the API routes do.
HandleComments_Init(ctx) ==
  LET c1 == [ctx EXCEPT !.session =
               SetField(ctx.session, "comments", CommentsOrEmpty(ctx.session))]
  IN render(c1, "Comments", Field("comments", c1.session["comments"]), NoOptions)

\* router.get("/comments")
HandleComments(ctx) ==
  LET comments == CommentsOrEmpty(ctx.session)
  IN render(ctx, "Comments", Field("comments", comments), NoOptions)

\* The list route reading comments || [] without assigning it.
HandleApiList_NoInit(ctx) ==
  [ctx EXCEPT !.body = CommentsOrEmpty(ctx.session),
              !.status = IF ctx.explicit THEN ctx.status ELSE 200]

\* The list route assigning [] where the code assigns comments || [].
HandleApiList_Reset(ctx) ==
  LET c1 == [ctx EXCEPT !.session = SetField(ctx.session, "comments", << >>)]
  IN [c1 EXCEPT !.body = c1.session["comments"],
                !.status = IF c1.explicit THEN c1.status ELSE 200]

\* router.get("/api/comments")
HandleApiList(ctx) ==
  LET c1 == [ctx EXCEPT !.session =
               SetField(ctx.session, "comments", CommentsOrEmpty(ctx.session))]
  IN [c1 EXCEPT !.body = c1.session["comments"],
                !.status = IF c1.explicit THEN c1.status ELSE 200]

\* The append route pushing before it validates.
HandleApiAppend_PushFirst(ctx, ms) ==
  LET text == Get(ctx.reqBody, "comment")
      comment == [date |-> NewDate(ms), comment |-> text]
      c1 == [ctx EXCEPT !.session =
               SetField(ctx.session, "comments",
                        Append(CommentsOrEmpty(ctx.session), comment))]
  IN IF ~ToBoolean(text)
     THEN [c1 EXCEPT !.thrown = BadData("Empty comments not allowed")]
     ELSE [c1 EXCEPT !.status = 201, !.explicit = TRUE, !.body = comment]

\* The append route without its validation.
HandleApiAppend_NoCheck(ctx, ms) ==
  LET c1 == [ctx EXCEPT !.session =
               SetField(ctx.session, "comments", CommentsOrEmpty(ctx.session))]
      comment == [date |-> NewDate(ms), comment |-> Get(c1.reqBody, "comment")]
  IN [c1 EXCEPT !.session =
                  SetField(c1.session, "comments",
                           Append(c1.session["comments"], comment)),
                !.status = 201, !.explicit = TRUE,
                !.body = comment]

\* The append route assigning [comment] where the code pushes.
HandleApiAppend_Replace(ctx, ms) ==
  LET text == Get(ctx.reqBody, "comment")
      comment == [date |-> NewDate(ms), comment |-> text]
      c1 == [ctx EXCEPT !.session =
               SetField(ctx.session, "comments", CommentsOrEmpty(ctx.session))]
  IN IF ~ToBoolean(text)
     THEN [c1 EXCEPT !.thrown = BadData("Empty comments not allowed")]
     ELSE [c1 EXCEPT !.session = SetField(c1.session, "comments", <<comment>>),
                     !.status = 201, !.explicit = TRUE,
                     !.body = comment]

\* The append route with unshift where the code pushes.
HandleApiAppend_Unshift(ctx, ms) ==
  LET text == Get(ctx.reqBody, "comment")
      comment == [date |-> NewDate(ms), comment |-> text]
      c1 == [ctx EXCEPT !.session =
               SetField(ctx.session, "comments", CommentsOrEmpty(ctx.session))]
  IN IF ~ToBoolean(text)
     THEN [c1 EXCEPT !.thrown = BadData("Empty comments not allowed")]
     ELSE [c1 EXCEPT !.session =
                       SetField(c1.session, "comments",
                                <<comment>> \o c1.session["comments"]),
                     !.status = 201, !.explicit = TRUE,
                     !.body = comment]

\* The append route spreading the request body over the new comment.
HandleApiAppend_SpreadBody(ctx, ms) ==
  LET c1 == [ctx EXCEPT !.session =
               SetField(ctx.session, "comments", CommentsOrEmpty(ctx.session))]
      text == Get(c1.reqBody, "comment")
      comment == [date |-> IF "date" \in DOMAIN c1.reqBody
                           THEN c1.reqBody["date"] ELSE NewDate(ms),
                  comment |-> text]
  IN IF ~ToBoolean(text)
     THEN [c1 EXCEPT !.thrown = BadData("Empty comments not allowed")]
     ELSE [c1 EXCEPT !.session =
                       SetField(c1.session, "comments",
                                Append(c1.session["comments"], comment)),
                     !.status = 201, !.explicit = TRUE,
                     !.body = comment]

\* router.post("/api/comments"), new Date() reading ms
HandleApiAppend(ctx, ms) ==
  LET c1 == [ctx EXCEPT !.session =
               SetField(ctx.session, "comments", CommentsOrEmpty(ctx.session))]
      text == Get(c1.reqBody, "comment")
      comment == [date |-> NewDate(ms), comment |-> text]
  IN IF ~ToBoolean(text)
     THEN [c1 EXCEPT !.thrown = BadData("Empty comments not allowed")]
     ELSE [c1 EXCEPT !.session =
                       SetField(c1.session, "comments",
                                Append(c1.session["comments"], comment)),
                     !.status = 201, !.explicit = TRUE,
                     !.body = comment]

\* The asset route delegating before it disables ctx.respond.
HandleNextAsset_RespondAfter(ctx) ==
  LET c1 == [ctx EXCEPT !.writers =
               Append(@, [by |-> "next", respond |-> ctx.respond])]
  IN [c1 EXCEPT !.respond = FALSE]

\* router.get("/_next/*"): ctx.respond = false, then the engine's request
\* handler writes to ctx.res; each write records ctx.respond as it was.
HandleNextAsset(ctx) ==
  LET c1 == [ctx EXCEPT !.respond = FALSE]
  IN [c1 EXCEPT !.writers = Append(@, [by |-> "next", respond |-> c1.respond])]

\* Koa writes the response from ctx.status and ctx.body once the middleware
\* has finished, unless ctx.respond is false.
Respond(ctx) ==
  IF ctx.respond
  THEN [ctx EXCEPT !.writers = Append(@, [by |-> "koa", respond |-> ctx.respond])]
  ELSE ctx

\* The payload of an unexpected error: a 500 with a generic message.
InternalPayload ==
  [statusCode |-> 500, error |-> "Internal Server Error",
   message |-> "An internal server error occurred"]

\* The error boundary: an error thrown by the handler is rendered once by
\* ctx.renderBoomError, an unexpected one as the generic 500.
ErrorBoundary(ctx) ==
  IF ctx.thrown = NoError THEN ctx
  ELSE renderBoomError(ctx, IF IsBoom(ctx.thrown) THEN ctx.thrown
                            ELSE InternalPayload)

\* What the client receives: the JSON of a body that is data, the HTML as is.
BodyOnWire(route, ctx) ==
  IF ctx.thrown # NoError THEN ctx.body
  ELSE IF route = "GET /api/comments" THEN CommentsToJSON(ctx.body)
  ELSE IF route = "POST /api/comments" THEN CommentToJSON(ctx.body)
  ELSE ctx.body

\* -------------------------------------------------------------------- boot
\* process.env: a variable is a string or is not set.
NodeEnvs == { Undefined, Str("production"), Str("development"), Str("test") }
SecretKeys == { Undefined, Str(""), Str("k3y"), Str("SECRET_KEY") }
Ports == { Undefined, Str(""), Str("8080") }
Envs == [NODE_ENV : NodeEnvs, SECRET_KEY : SecretKeys, PORT : Ports]
NoEnv == [NODE_ENV |-> Undefined, SECRET_KEY |-> Undefined, PORT |-> Undefined]

\* x || y
OrElse(x, y) == IF ToBoolean(x) THEN x ELSE y

\* createApp with the key taken as it is, an empty one included.
createApp_KeyAsGiven(env) ==
  IF env.NODE_ENV = Str("production") /\ ~ToBoolean(env.SECRET_KEY)
  THEN [ok |-> FALSE, keys |-> << >>,
        error |-> "Please set SECRET_KEY env variable."]
  ELSE [ok |-> TRUE,
        keys |-> <<IF env.SECRET_KEY = Undefined THEN Str("SECRET_KEY")
                   ELSE env.SECRET_KEY>>,
        error |-> ""]

\* createApp(): the assertion of production mode, then app.keys.
createApp(env) ==
  IF env.NODE_ENV = Str("production") /\ ~ToBoolean(env.SECRET_KEY)
  THEN [ok |-> FALSE, keys |-> << >>,
        error |-> "Please set SECRET_KEY env variable."]
  ELSE [ok |-> TRUE,
        keys |-> <<OrElse(env.SECRET_KEY, Str("SECRET_KEY"))>>,
        error |-> ""]

\* const PORT = process.env.PORT || 7000
PORT(env) == OrElse(env.PORT, Num("7000"))

\* The process before createApp() has settled, and once it listens.
Starting(env) ==
  [env |-> env, state |-> "starting", keys |-> << >>, port |-> Undefined,
   exitCode |-> Undefined]
Listening(env) ==
  [env |-> env, state |-> "listening", keys |-> createApp(env).keys,
   port |-> PORT(env), exitCode |-> Undefined]

\* ------------------------------------------------------------ Comments page
\* No Comments page is open.
NoPage == [pc |-> "closed"]

\* The texts typed into the input.
PageTexts == { "", "   ", "a" }
\* Nothing answered yet; an answer x is kept as <<x>>.
NoData == << >>

\* withSSR: getInitialProps answering an empty object.
getInitialProps_Empty(context) == EmptyObject

\* withSSR: getInitialProps({ query }) returns query.
getInitialProps(context) == context.query

\* The page mounted with its props: state = {comments: this.props.comments,
\* text: "", loading: false, error: null}, comments defaulting to [].  Beside
\* the state: where handleSubmit stands (pc), the number of handleSubmit
\* calls that have not finished (running), the text it sent, and of the
\* running or last submit the list shown when it started, the requests it
\* has issued, the comment the POST answered and how it ended, and the list
\* the last GET answered.
Mount(props) ==
  LET comments == IF "comments" \in DOMAIN props THEN props["comments"] ELSE << >>
  IN [pc |-> "idle", comments |-> comments, text |-> "", loading |-> FALSE,
      error |-> "null", running |-> 0, sent |-> "", requests |-> << >>,
      props |-> comments, shown |-> comments,
      posted |-> NoData, got |-> NoData, outcome |-> "none"]

\* handleTextChange
handleTextChange(pg, value) == [pg EXCEPT !.text = value]

\* The submit control never disabled.
SubmitEnabled_Always(pg) == TRUE

\* render: <input type="submit" disabled={loading} />
SubmitEnabled(pg) == ~pg.loading

\* handleSubmit without its finally.
SubmitStart_NoFinally(pg) ==
  LET p1 == [pg EXCEPT !.loading = TRUE, !.error = "null", !.shown = pg.comments,
                       !.running = @ + 1, !.requests = << >>,
                       !.posted = NoData, !.outcome = "running"]
  IN IF p1.text = ""
     THEN [p1 EXCEPT !.error = "Empty comment not allowed",
                     !.running = @ - 1, !.outcome = "empty"]
     ELSE [p1 EXCEPT !.pc = "posting", !.sent = p1.text,
                     !.requests = Append(@, "POST /api/comments")]

\* handleSubmit without its validation.
SubmitStart_NoValidation(pg) ==
  LET p1 == [pg EXCEPT !.loading = TRUE, !.error = "null", !.shown = pg.comments,
                       !.running = @ + 1, !.requests = << >>,
                       !.posted = NoData, !.outcome = "running"]
  IN [p1 EXCEPT !.pc = "posting", !.sent = p1.text,
                !.requests = Append(@, "POST /api/comments")]

\* handleSubmit refusing a text of spaces as well.
SubmitStart_Trim(pg) ==
  LET p1 == [pg EXCEPT !.loading = TRUE, !.error = "null", !.shown = pg.comments,
                       !.running = @ + 1, !.requests = << >>,
                       !.posted = NoData, !.outcome = "running"]
  IN IF p1.text \in {"", "   "}
     THEN [p1 EXCEPT !.error = "Empty comment not allowed", !.loading = FALSE,
                     !.running = @ - 1, !.outcome = "empty"]
     ELSE [p1 EXCEPT !.pc = "posting", !.sent = p1.text,
                     !.requests = Append(@, "POST /api/comments")]

\* handleSubmit up to its first await: loading is set, an empty text is
\* refused on the spot, any other text is posted.
SubmitStart(pg) ==
  LET p1 == [pg EXCEPT !.loading = TRUE, !.error = "null", !.shown = pg.comments,
                       !.running = @ + 1, !.requests = << >>,
                       !.posted = NoData, !.outcome = "running"]
  IN IF p1.text = ""
     THEN [p1 EXCEPT !.error = "Empty comment not allowed", !.loading = FALSE,
                     !.running = @ - 1, !.outcome = "empty"]
     ELSE [p1 EXCEPT !.pc = "posting", !.sent = p1.text,
                     !.requests = Append(@, "POST /api/comments")]

\* handleSubmit appending the created comment to the list by itself.
PostSettled_Optimistic(pg, ok, data) ==
  IF ok THEN [pg EXCEPT !.pc = "getting", !.posted = <<data>>,
                        !.requests = Append(@, "GET /api/comments"),
                        !.comments = Append(@, data)]
  ELSE [pg EXCEPT !.pc = "idle", !.error = data, !.loading = FALSE,
                  !.running = @ - 1, !.outcome = "post-failed"]

\* await API.post settles: the GET follows, or the error is caught.
PostSettled(pg, ok, data) ==
  IF ok THEN [pg EXCEPT !.pc = "getting", !.posted = <<data>>,
                        !.requests = Append(@, "GET /api/comments")]
  ELSE [pg EXCEPT !.pc = "idle", !.error = data, !.loading = FALSE,
                  !.running = @ - 1, !.outcome = "post-failed"]

\* handleSubmit clearing the text when the GET has failed.
GetSettled_ClearsText(pg, ok, data) ==
  IF ok THEN [pg EXCEPT !.pc = "idle", !.comments = data, !.error = "null",
                        !.text = "", !.loading = FALSE, !.got = <<data>>,
                        !.running = @ - 1, !.outcome = "done"]
  ELSE [pg EXCEPT !.pc = "idle", !.error = data, !.text = "", !.loading = FALSE,
                  !.running = @ - 1, !.outcome = "get-failed"]

\* await API.get settles: the state takes the list, or the error is caught.
GetSettled(pg, ok, data) ==
  IF ok THEN [pg EXCEPT !.pc = "idle", !.comments = data, !.error = "null",
                        !.text = "", !.loading = FALSE, !.got = <<data>>,
                        !.running = @ - 1, !.outcome = "done"]
  ELSE [pg EXCEPT !.pc = "idle", !.error = data, !.loading = FALSE,
                  !.running = @ - 1, !.outcome = "get-failed"]

\* axios resolves for a 2xx status and rejects otherwise.
Resolves(status) == status \in 200..299
RejectionOf(status) == IF status = BadDataStatus
                       THEN "Request failed with status code 422"
                       ELSE "Request failed"

\* ------------------------------------------------------------------- state
VARIABLES
  cookie,   \* cookie[s]: the session object the client of s holds
  now,      \* the server's clock
  log,      \* log[s]: the comments pushed through s, as stored, in order
  last,     \* the last request and its response
  app,      \* the process: its environment and the application it built
  page,     \* the Comments page open in the browser of session s1
  wire      \* wire[r]: a request on its way to the server or its response
            \* on its way back

vars == <<cookie, now, log, last, app, page, wire>>

\* The requests a browser can have outstanding at once.
Requests == { "r1", "r2" }
Idle == [pc |-> "idle"]
NoWire == [r \in Requests |-> Idle]

NoExchange ==
  [session |-> "none", route |-> "none", reqBody |-> EmptyObject, sentAt |-> 0,
   before |-> EmptyObject, after |-> EmptyObject, logBefore |-> << >>,
   status |-> 0, body |-> NoBody, thrown |-> NoError]

Init ==
  /\ cookie = [s \in Sessions |-> EmptyObject]
  /\ now = 0
  /\ log = [s \in Sessions |-> << >>]
  /\ last = NoExchange
  /\ app = Listening(NoEnv)
  /\ page = NoPage
  /\ wire = NoWire

\* The exchange with one store for all the sessions where the code has
\* ctx.session.
Exchange_Shared(s, route, reqBody, ctx, ms) ==
  LET done == ErrorBoundary(ctx)
      after == SessionToJSON(done.session)
  IN /\ cookie' = [x \in Sessions |-> after]
     /\ now' = ms
     /\ log' = [log EXCEPT ![s] =
                  IF route = "POST /api/comments" /\ ctx.thrown = NoError
                  THEN Append(@, CommentToJSON(ctx.body)) ELSE @]
     /\ last' = [session |-> s, route |-> route, reqBody |-> reqBody,
                 sentAt |-> now, before |-> cookie[s], after |-> after,
                 logBefore |-> log[s],
                 status |-> done.status, body |-> BodyOnWire(route, done),
                 thrown |-> done.thrown]

\* One request of session s through the middleware stack: the session is
\* decoded from the cookie, the handler runs inside the error boundary, the
\* session is committed to the cookie and the response is sent.
Exchange(s, route, reqBody, ctx, ms) ==
  LET done == ErrorBoundary(ctx)
      after == SessionToJSON(done.session)
  IN /\ cookie' = [cookie EXCEPT ![s] = after]
     /\ now' = ms
     /\ log' = [log EXCEPT ![s] =
                  IF route = "POST /api/comments" /\ ctx.thrown = NoError
                  THEN Append(@, CommentToJSON(ctx.body)) ELSE @]
     /\ last' = [session |-> s, route |-> route, reqBody |-> reqBody,
                 sentAt |-> now, before |-> cookie[s], after |-> after,
                 logBefore |-> log[s],
                 status |-> done.status, body |-> BodyOnWire(route, done),
                 thrown |-> done.thrown]

\* The number of comments stored in all the sessions.
RECURSIVE Total(_)
Total(S) ==
  IF S = {} THEN 0
  ELSE LET s == CHOOSE x \in S : TRUE
       IN Len(CommentsOrEmpty(cookie[s])) + Total(S \ {s})
Stored == Total(Sessions)

\* The clock values a request that starts now can read: time does not go
\* backwards.
ClockReads == { ms \in now..(now + 1) : ms <= MaxClock }

GetHome(s) ==
  \E ms \in ClockReads :
    /\ Exchange(s, "GET /", EmptyObject,
                HandleHome(NewCtx(cookie[s], EmptyObject)), ms)
    /\ UNCHANGED <<app, page, wire>>

GetComments(s) ==
  \E ms \in ClockReads :
    /\ Exchange(s, "GET /comments", EmptyObject,
                HandleComments(NewCtx(cookie[s], EmptyObject)), ms)
    /\ UNCHANGED <<app, page, wire>>

GetApiComments(s) ==
  \E ms \in ClockReads :
    /\ Exchange(s, "GET /api/comments", EmptyObject,
                HandleApiList(NewCtx(cookie[s], EmptyObject)), ms)
    /\ UNCHANGED <<app, page, wire>>

PostApiComments(s) ==
  \E reqBody \in Bodies, ms \in ClockReads :
    /\ ToBoolean(Get(reqBody, "comment")) => Stored < MaxComments
    /\ Exchange(s, "POST /api/comments", reqBody,
                HandleApiAppend(NewCtx(cookie[s], reqBody), ms), ms)
    /\ UNCHANGED <<app, page, wire>>

Next ==
  \/ \E s \in Sessions : GetHome(s)
  \/ \E s \in Sessions : GetComments(s)
  \/ \E s \in Sessions : GetApiComments(s)
  \/ \E s \in Sessions : PostApiComments(s)

Spec == Init /\ [][Next]_vars

\* ----------------------------------------------------- the process starting
\* node server/index.js under each environment.
InitBoot ==
  /\ cookie = [s \in Sessions |-> EmptyObject]
  /\ now = 0
  /\ log = [s \in Sessions |-> << >>]
  /\ last = NoExchange
  /\ app \in { Starting(env) : env \in Envs }
  /\ page = NoPage
  /\ wire = NoWire

\* createApp() settles: the promise resolves with the app or rejects.
CreateApp ==
  /\ app.state = "starting"
  /\ LET built == createApp(app.env)
     IN app' = [app EXCEPT !.state = IF built.ok THEN "built" ELSE "rejected",
                           !.keys = built.keys]
  /\ UNCHANGED <<cookie, now, log, last, page, wire>>

\* .then(app => http.createServer(app.callback()).listen(PORT))
Listen ==
  /\ app.state = "built"
  /\ app' = [app EXCEPT !.state = "listening", !.port = PORT(app.env)]
  /\ UNCHANGED <<cookie, now, log, last, page, wire>>

\* .catch(err => { console.error(err); process.exit(1); })
Exit ==
  /\ app.state = "rejected"
  /\ app' = [app EXCEPT !.state = "exited", !.exitCode = Num("1")]
  /\ UNCHANGED <<cookie, now, log, last, page, wire>>

NextBoot == CreateApp \/ Listen \/ Exit

SpecBoot == InitBoot /\ [][NextBoot]_vars

\* ------------------------------------- rendering, errors and the asset route
\* The requests of SpecSSR: the views with an engine that may fail, the
\* append route with bodies that carry extra fields, the asset route and
\* handlers that throw Boom errors.
EngineMessages ==
  { "ENOENT: no such file .next/BUILD_ID", "TypeError: comments.map is not a function" }
Failures ==
  {NoFailure} \cup
  { [page |-> p, message |-> m] : p \in {"/Home", "/Comments"}, m \in EngineMessages }

WithField(o, k, x) == IF x = Undefined THEN o ELSE SetField(o, k, x)
ExtraBodies ==
  { WithField(WithField(EmptyObject, "comment", c), "date", d) :
      c \in {Undefined, Str(""), Str("a")},
      d \in {Undefined, Str("1999-12-31T00:00:00.000Z"), Num("0")} }

\* The payloads of Boom errors: Boom.badRequest, notFound, badData,
\* internal, serverUnavailable, each with a message.
BoomKinds ==
  { [code |-> 400, label |-> "Bad Request"],
    [code |-> 404, label |-> "Not Found"],
    [code |-> 422, label |-> "Unprocessable Entity"],
    [code |-> 500, label |-> "Internal Server Error"],
    [code |-> 503, label |-> "Service Unavailable"] }
Payloads ==
  { [statusCode |-> k.code, error |-> k.label, message |-> m] :
      k \in BoomKinds, m \in {"no such comment", "try again later"} }

\* One request of session s, as Exchange, keeping the final context.
Serve(s, route, reqBody, ctx, ms) ==
  LET done == Respond(ErrorBoundary(ctx))
      after == SessionToJSON(done.session)
  IN /\ cookie' = [cookie EXCEPT ![s] = after]
     /\ now' = ms
     /\ log' = [log EXCEPT ![s] =
                  IF route = "POST /api/comments" /\ ctx.thrown = NoError
                  THEN Append(@, CommentToJSON(ctx.body)) ELSE @]
     /\ last' = [session |-> s, route |-> route, reqBody |-> reqBody,
                 sentAt |-> now, before |-> cookie[s], after |-> after,
                 logBefore |-> log[s],
                 status |-> done.status, body |-> BodyOnWire(route, done),
                 thrown |-> done.thrown, ms |-> ms, ctx |-> done]
     /\ UNCHANGED <<app, page, wire>>

CtxFailing(s, reqBody, f) == [NewCtx(cookie[s], reqBody) EXCEPT !.failing = f]

ViewHome(s) ==
  \E ms \in ClockReads, f \in Failures :
    Serve(s, "GET /", EmptyObject, HandleHome(CtxFailing(s, EmptyObject, f)), ms)

ViewComments(s) ==
  \E ms \in ClockReads, f \in Failures :
    Serve(s, "GET /comments", EmptyObject,
          HandleComments(CtxFailing(s, EmptyObject, f)), ms)

AppendWithExtras(s) ==
  \E reqBody \in ExtraBodies, ms \in ClockReads :
    /\ ToBoolean(Get(reqBody, "comment")) => Stored < MaxComments
    /\ Serve(s, "POST /api/comments", reqBody,
             HandleApiAppend(NewCtx(cookie[s], reqBody), ms), ms)

NextAsset(s) ==
  \E ms \in ClockReads :
    Serve(s, "GET /_next/*", EmptyObject,
          HandleNextAsset(NewCtx(cookie[s], EmptyObject)), ms)

\* A handler that throws a Boom error.
HandlerThrows(s) ==
  \E payload \in Payloads, ms \in ClockReads :
    Serve(s, "ANY", EmptyObject,
          [NewCtx(cookie[s], EmptyObject) EXCEPT !.thrown = payload], ms)

NextSSR ==
  \/ \E s \in Sessions : ViewHome(s)
  \/ \E s \in Sessions : ViewComments(s)
  \/ \E s \in Sessions : AppendWithExtras(s)
  \/ \E s \in Sessions : NextAsset(s)
  \/ \E s \in Sessions : HandlerThrows(s)

SpecSSR == Init /\ [][NextSSR]_vars

\* ------------------------------------------------- the error translator
\* renderBoomError given any payload: the statusCode of a Boom error, or 0
\* for a statusCode that is zero or missing.
StatusCodes == { 0, 400, 422, 499, 500, 503 }
AnyPayloads ==
  { [statusCode |-> c, error |-> e, message |-> m] :
      c \in StatusCodes, e \in {"Error"}, m \in {"no such comment", "try again later"} }

Translate(s) ==
  \E payload \in AnyPayloads, ms \in ClockReads :
    Serve(s, "ANY", EmptyObject,
          [NewCtx(cookie[s], EmptyObject) EXCEPT !.thrown = payload], ms)

NextTranslate ==
  \/ \E s \in Sessions : Translate(s)
  \/ \E s \in Sessions : AppendWithExtras(s)

SpecTranslate == Init /\ [][NextTranslate]_vars

\* ------------------------------------------------------ the Comments page
\* The Comments page in the browser of session s1, another tab of that
\* browser posting meanwhile, and requests that fail on the network.
PageSession == "s1"

\* What the client receives for a request whose handler ended with ctx.
Response(route, ctx) ==
  LET done == ErrorBoundary(ctx)
  IN [status |-> done.status, body |-> BodyOnWire(route, done)]

\* The exchange as Exchange, nothing kept of the request and its response.
Unrecorded(s, route, reqBody, ctx, ms) ==
  LET done == ErrorBoundary(ctx)
      after == SessionToJSON(done.session)
  IN /\ cookie' = [cookie EXCEPT ![s] = after]
     /\ now' = ms
     /\ log' = [log EXCEPT ![s] =
                  IF route = "POST /api/comments" /\ ctx.thrown = NoError
                  THEN Append(@, CommentToJSON(ctx.body)) ELSE @]
     /\ UNCHANGED last

\* The exchange, recorded in last or not.
Via(X, s, route, reqBody, ctx, ms) ==
  IF X = "recorded" THEN Exchange(s, route, reqBody, ctx, ms)
  ELSE Unrecorded(s, route, reqBody, ctx, ms)

\* GET /comments rendered on the server, the page mounted with its props.
OpenPageBy(X) ==
  /\ page.pc = "closed"
  /\ LET ctx == HandleComments(NewCtx(cookie[PageSession], EmptyObject))
         res == Response("GET /comments", ctx)
     IN /\ \E ms \in ClockReads :
             Via(X, PageSession, "GET /comments", EmptyObject, ctx, ms)
        /\ page' = Mount(getInitialProps([query |-> res.body.props]))
  /\ UNCHANGED <<app, wire>>

OpenPage == OpenPageBy("recorded")

TextChange ==
  /\ page.pc # "closed"
  /\ \E value \in PageTexts : page' = handleTextChange(page, value)
  /\ UNCHANGED <<cookie, now, log, last, app, wire>>

\* A click on the submit control, which is disabled while loading.
Submit ==
  /\ page.pc # "closed" /\ SubmitEnabled(page)
  /\ page' = SubmitStart(page)
  /\ UNCHANGED <<cookie, now, log, last, app, wire>>

PostAnsweredBy(X) ==
  /\ page.pc = "posting"
  /\ Stored < MaxComments
  /\ LET reqBody == Field("comment", Str(page.sent))
     IN \E ms \in ClockReads :
          LET ctx == HandleApiAppend(NewCtx(cookie[PageSession], reqBody), ms)
              res == Response("POST /api/comments", ctx)
          IN /\ Via(X, PageSession, "POST /api/comments", reqBody, ctx, ms)
             /\ page' = PostSettled(page, Resolves(res.status),
                                    IF Resolves(res.status) THEN res.body
                                    ELSE RejectionOf(res.status))
  /\ UNCHANGED <<app, wire>>

PostAnswered == PostAnsweredBy("recorded")

PostLost ==
  /\ page.pc = "posting"
  /\ page' = PostSettled(page, FALSE, "Network Error")
  /\ UNCHANGED <<cookie, now, log, last, app, wire>>

GetAnsweredBy(X) ==
  /\ page.pc = "getting"
  /\ LET ctx == HandleApiList(NewCtx(cookie[PageSession], EmptyObject))
         res == Response("GET /api/comments", ctx)
     IN /\ \E ms \in ClockReads :
             Via(X, PageSession, "GET /api/comments", EmptyObject, ctx, ms)
        /\ page' = GetSettled(page, Resolves(res.status),
                              IF Resolves(res.status) THEN res.body
                              ELSE RejectionOf(res.status))
  /\ UNCHANGED <<app, wire>>

GetAnswered == GetAnsweredBy("recorded")

GetLost ==
  /\ page.pc = "getting"
  /\ page' = GetSettled(page, FALSE, "Network Error")
  /\ UNCHANGED <<cookie, now, log, last, app, wire>>

\* Another tab of the same browser posts a comment.
OtherTabBy(X) ==
  /\ Stored < MaxComments
  /\ LET reqBody == Field("comment", Str("b"))
     IN \E ms \in ClockReads :
          Via(X, PageSession, "POST /api/comments", reqBody,
              HandleApiAppend(NewCtx(cookie[PageSession], reqBody), ms), ms)
  /\ UNCHANGED <<app, page, wire>>

OtherTab == OtherTabBy("recorded")

NextPage ==
  \/ OpenPage \/ TextChange \/ Submit
  \/ PostAnswered \/ PostLost \/ GetAnswered \/ GetLost
  \/ OtherTab

SpecPage == Init /\ [][NextPage]_vars

\* The page with requests that settle: each is answered or fails.
FairOpenPage == OpenPageBy("unrecorded")
FairPostAnswered == PostAnsweredBy("unrecorded")
FairGetAnswered == GetAnsweredBy("unrecorded")
FairOtherTab == OtherTabBy("unrecorded")

NextPageFair ==
  \/ FairOpenPage \/ TextChange \/ Submit
  \/ FairPostAnswered \/ PostLost \/ FairGetAnswered \/ GetLost
  \/ FairOtherTab

SpecPageFair ==
  /\ Init /\ [][NextPageFair]_vars
  /\ WF_vars(FairPostAnswered \/ PostLost)
  /\ WF_vars(FairGetAnswered \/ GetLost)

\* ---------------------------------------- requests under the same token
\* The browser of a session sends requests without waiting for the answers
\* of the earlier ones.  koa-session with its default options keeps the
\* session in the cookie: a request carries the cookie the browser holds
\* when it is sent, the server decodes it, runs the handler and answers with
\* a Set-Cookie of the whole session when the session has changed, and the
\* browser stores the cookie of each response as it arrives.
ConcTexts == { Str("a"), Str("b") }
ConcSession == "s1"

\* The comments the server has answered with 201, over all the sessions.
RECURSIVE Logged(_)
Logged(S) ==
  IF S = {} THEN 0
  ELSE LET s == CHOOSE x \in S : TRUE IN Len(log[s]) + Logged(S \ {s})
PostsSent ==
  Cardinality({ r \in Requests : wire[r].pc = "sent"
                                  /\ wire[r].route = "POST /api/comments" })

SendPost(r, s) ==
  /\ wire[r] = Idle
  /\ Logged(Sessions) + PostsSent < MaxComments
  /\ \E text \in ConcTexts :
       wire' = [wire EXCEPT ![r] =
                  [pc |-> "sent", session |-> s, route |-> "POST /api/comments",
                   reqBody |-> Field("comment", text), cookie |-> cookie[s]]]
  /\ UNCHANGED <<cookie, now, log, last, app, page>>

SendList(r, s) ==
  /\ wire[r] = Idle
  /\ wire' = [wire EXCEPT ![r] =
                [pc |-> "sent", session |-> s, route |-> "GET /api/comments",
                 reqBody |-> EmptyObject, cookie |-> cookie[s]]]
  /\ UNCHANGED <<cookie, now, log, last, app, page>>

\* The response to request req whose handler ended with ctx.
Answer(req, ctx) ==
  LET done == ErrorBoundary(ctx)
      after == SessionToJSON(done.session)
  IN [pc |-> "answered", session |-> req.session, route |-> req.route,
      reqBody |-> req.reqBody, cookie |-> req.cookie,
      status |-> done.status, body |-> BodyOnWire(req.route, done),
      thrown |-> done.thrown,
      setCookie |-> IF after # req.cookie THEN <<after>> ELSE << >>]

\* The server handles request r: the handlers have no await, so each runs
\* from the decoded cookie to its response in one step.
Handle(r) ==
  /\ wire[r].pc = "sent"
  /\ \E ms \in ClockReads :
       LET req == wire[r]
           ctx == IF req.route = "POST /api/comments"
                  THEN HandleApiAppend(NewCtx(req.cookie, req.reqBody), ms)
                  ELSE HandleApiList(NewCtx(req.cookie, req.reqBody))
       IN /\ wire' = [wire EXCEPT ![r] = Answer(req, ctx)]
          /\ now' = ms
          /\ log' = [log EXCEPT ![req.session] =
                       IF req.route = "POST /api/comments" /\ ctx.thrown = NoError
                       THEN Append(@, CommentToJSON(ctx.body)) ELSE @]
  /\ UNCHANGED <<cookie, last, app, page>>

\* The browser receives the response to r and stores its cookie.
Receive(r) ==
  /\ wire[r].pc = "answered"
  /\ LET res == wire[r]
         s == res.session
         after == IF res.setCookie = << >> THEN cookie[s] ELSE res.setCookie[1]
     IN /\ cookie' = [cookie EXCEPT ![s] = after]
        /\ wire' = [wire EXCEPT ![r] = Idle]
  /\ UNCHANGED <<now, log, last, app, page>>

\* The requests are those of one browser.
NextConc ==
  \/ \E r \in Requests : SendPost(r, ConcSession)
  \/ \E r \in Requests : SendList(r, ConcSession)
  \/ \E r \in Requests : Handle(r)
  \/ \E r \in Requests : Receive(r)

SpecConc == Init /\ [][NextConc]_vars

\* ------------------------------------------------------------------ claims
\* list(session): what GET /api/comments answers for a session object.
ListOf(sess) ==
  BodyOnWire("GET /api/comments", HandleApiList(NewCtx(sess, EmptyObject)))

IsPrefix(a, b) == Len(a) <= Len(b) /\ SubSeq(b, 1, Len(a)) = a
Contains(seq, x) == \E i \in 1..Len(seq) : seq[i] = x
Texts(seq) == [i \in 1..Len(seq) |-> seq[i].comment]

IsList == last.route = "GET /api/comments"
IsAppend == last.route = "POST /api/comments"
SentText == Get(last.reqBody, "comment")
IsNonEmptyString(x) == x.t = "string" /\ x.v # ""
\* The handler threw its validation error.
Rejected == last.thrown = BadData("Empty comments not allowed")

\* C1: a GET /api/comments of a session in which no POST /api/comments has
\* succeeded yet answers the empty sequence.
C1_ListBeforeAppendIsEmpty ==
  (IsList /\ last.logBefore = << >>) => last.body = << >>

\* C1 witness: such a GET after a POST of the same session was rejected,
\* while the other session already holds a comment.
C1_Witness ==
  /\ IsList /\ last.logBefore = << >>
  /\ "comments" \in DOMAIN last.before
  /\ \E s \in Sessions : s # last.session /\ log[s] # << >>

\* C2: a POST /api/comments carrying a non-empty string s answers 201 with
\* the created comment, whose text is s, and every GET /api/comments of the
\* session answers a sequence that contains each comment created in it.
C2_CreatedThenListed ==
  /\ (IsAppend /\ IsNonEmptyString(SentText)) =>
        /\ last.status = 201
        /\ last.body.comment = SentText
        /\ log[last.session] = Append(last.logBefore, last.body)
        /\ Contains(ListOf(last.after), last.body)
  /\ IsList =>
        \A i \in 1..Len(log[last.session]) :
          Contains(last.body, log[last.session][i])

\* C2 witness: a GET that lists two comments created earlier in the session.
C2_Witness ==
  /\ IsList /\ Len(log[last.session]) = 2
  /\ Len(last.body) = 2

\* C3: after a successful append of a non-empty string s the list of the
\* session ends with a comment of text s whose date is set and is not
\* before the clock value read just before the append.
C3_AppendedIsLastAndDated ==
  (IsAppend /\ IsNonEmptyString(SentText)) =>
    LET l == ListOf(last.after)
    IN /\ Len(l) > 0
       /\ l[Len(l)].comment = SentText
       /\ l[Len(l)].date.t = "string"
       /\ DateParse(l[Len(l)].date) >= last.sentAt

\* C3 witness: an append of "a" handled after the clock has advanced, onto
\* a session that already holds a comment.
C3_Witness ==
  /\ IsAppend /\ SentText = Str("a")
  /\ last.sentAt > 0
  /\ Len(ListOf(last.after)) = 2

\* C4: the list of a session is the sequence of the comments created in it,
\* in the order of their creation; append(a), append(b) on an empty session
\* lists exactly [a, b].
C4_InsertionOrder ==
  \A s \in Sessions :
    /\ ListOf(cookie[s]) = log[s]
    /\ (IsAppend /\ last.session = s /\ last.status = 201) =>
         Texts(ListOf(cookie[s])) = Append(Texts(ListOf(last.before)), SentText)

\* C4 witness: a session that appended "a" and then "b" lists [a, b].
C4_Witness ==
  /\ IsAppend /\ SentText = Str("b")
  /\ Texts(ListOf(cookie[last.session])) = <<Str("a"), Str("b")>>

\* The texts that are empty or only whitespace.
Blank == { Str(""), Str("   ") }

C6_MissingFieldRejected ==
  (IsAppend /\ "comment" \notin DOMAIN last.reqBody) =>
    /\ last.status \in 400..499
    /\ Len(ListOf(last.after)) = Len(ListOf(last.before))
    /\ log[last.session] = last.logBefore

\* C6 witness: a POST of {} answered in a session that holds a comment.
C6_Witness ==
  /\ IsAppend /\ last.reqBody = EmptyObject
  /\ last.status \in 400..499
  /\ Len(ListOf(last.before)) > 0

\* C7: a request of one session leaves the list of every other session as
\* it was, and a session lists only comments created through it.
C7_SessionsIsolated ==
  [][\A s \in Sessions :
       /\ last'.session # s => cookie'[s] = cookie[s]
       /\ \A i \in 1..Len(CommentsOrEmpty(cookie'[s])) :
            Contains(log'[s], CommentsOrEmpty(cookie'[s])[i])]_vars

\* C7 witness: both sessions hold a comment, of different texts, and the
\* last request was an append.
C7_Witness ==
  /\ IsAppend /\ last.status = 201
  /\ \A s \in Sessions : Len(ListOf(cookie[s])) = 1
  /\ Texts(ListOf(cookie["s1"])) # Texts(ListOf(cookie["s2"]))

\* C8 as stated: a POST /api/comments that fails validation leaves the
\* session object as it was, the presence of its comments field included.
C8_RejectedLeavesSessionUntouched ==
  (IsAppend /\ Rejected) => last.after = last.before

\* C9 as stated: every stored comment has a text that is a non-empty string.
C9_StoredTextIsNonEmptyString ==
  \A s \in Sessions :
    \A i \in 1..Len(ListOf(cookie[s])) :
      IsNonEmptyString(ListOf(cookie[s])[i].comment)

\* C10: every request leaves the list of each session unchanged or longer
\* by exactly one comment at its end.
C10_ListOnlyGrowsAtEnd ==
  [][\A s \in Sessions :
       /\ IsPrefix(CommentsOrEmpty(cookie[s]), CommentsOrEmpty(cookie'[s]))
       /\ Len(CommentsOrEmpty(cookie'[s])) <= Len(CommentsOrEmpty(cookie[s])) + 1]_vars

\* C10 witness: a GET /api/comments answered after two appends in the
\* session, the second one onto a list that held the first.
C10_Witness ==
  /\ IsList /\ Len(last.body) = 2
  /\ last.after = last.before

\* C12: GET /api/comments answers 200 with the whole sequence of the
\* session, in order; it initializes a session that has no sequence to the
\* empty one and leaves any other session as it was.
C12_ListAnswersWholeSequence ==
  IsList =>
    /\ last.status = 200
    /\ last.thrown = NoError
    /\ last.body = CommentsOrEmpty(last.before)
    /\ last.body = log[last.session]
    /\ last.after = IF "comments" \in DOMAIN last.before THEN last.before
                    ELSE Field("comments", << >>)

\* C12 witness: the first GET /api/comments of a session, which creates
\* its comments field, while the other session holds two comments.
C12_Witness ==
  /\ IsList
  /\ last.before = EmptyObject /\ last.after = Field("comments", << >>)
  /\ \E s \in Sessions : Len(CommentsOrEmpty(cookie[s])) = 2

IsView == last.route \in {"GET /", "GET /comments"}

\* C13: GET /comments renders the Comments page with props {comments},
\* comments being the sequence of the session or the empty one when it has
\* none; GET / and GET /comments leave the session as it was.
C13_ViewsRenderAndLeaveSession ==
  /\ last.route = "GET /comments" =>
        /\ last.status = 200
        /\ last.body = RenderToHTML("/Comments",
                                    Field("comments", log[last.session]),
                                    NoOptions)
  /\ IsView => last.after = last.before /\ cookie[last.session] = last.before

\* C13 witness: GET /comments of a session that has no comments field,
\* rendered with the empty list and the session left without the field,
\* while the other session holds a comment.
C13_Witness ==
  /\ last.route = "GET /comments" /\ last.status = 200
  /\ last.before = EmptyObject /\ cookie[last.session] = EmptyObject
  /\ last.body.props = Field("comments", << >>)
  /\ \E s \in Sessions \ {last.session} : Len(CommentsOrEmpty(cookie[s])) = 1

\* After createApp() has settled.
Settled == app.state # "starting"
Failed == app.state \in {"rejected", "exited"}
Production == app.env.NODE_ENV = Str("production")
SigningKey == app.keys[1]

\* C18 as stated: construction fails in production mode without a
\* SECRET_KEY; in any other mode a missing SECRET_KEY is replaced by the
\* default; a SECRET_KEY that is set is always the signing key.
C18_ProvidedKeyAlwaysUsed ==
  Settled =>
    /\ (Production /\ app.env.SECRET_KEY = Undefined) => Failed
    /\ (~Production /\ app.env.SECRET_KEY = Undefined) =>
         (~Failed /\ SigningKey = Str("SECRET_KEY"))
    /\ app.env.SECRET_KEY # Undefined =>
         (~Failed /\ SigningKey = app.env.SECRET_KEY)

\* C18 amended: a SECRET_KEY that is set to the empty string counts as
\* missing; a non-empty one is always the signing key.
C18_NonEmptyKeyAlwaysUsed ==
  Settled =>
    /\ (Production /\ ~IsNonEmptyString(app.env.SECRET_KEY)) =>
         (Failed /\ app.keys = << >>)
    /\ (~Production /\ ~IsNonEmptyString(app.env.SECRET_KEY)) =>
         (~Failed /\ app.keys = <<Str("SECRET_KEY")>>)
    /\ IsNonEmptyString(app.env.SECRET_KEY) =>
         (~Failed /\ app.keys = <<app.env.SECRET_KEY>>)

\* C18 witness: the process has exited in production mode without a key.
C18_Witness ==
  /\ app.state = "exited"
  /\ Production /\ app.env.SECRET_KEY = Undefined

\* The body without its extra fields.
StripExtras(body) ==
  IF "comment" \in DOMAIN body THEN Field("comment", body["comment"])
  ELSE EmptyObject
\* The same request without the extra fields, handled at the same clock
\* reading in the same session.
Twin == ErrorBoundary(HandleApiAppend(NewCtx(last.before, StripExtras(last.reqBody)),
                                      last.ms))

\* C11: the date of a created comment is the server's clock reading; a POST
\* that carries extra fields, a date among them, answers and stores what
\* the same POST without them does.
C11_DateIsServerAssigned ==
  IsAppend =>
    /\ last.status = Twin.status
    /\ last.body = BodyOnWire(last.route, Twin)
    /\ last.after = SessionToJSON(Twin.session)
    /\ last.status = 201 =>
         LET stored == CommentsOrEmpty(last.after)
         IN stored[Len(stored)] =
              [date |-> DateToJSON(NewDate(last.ms)), comment |-> SentText]

\* C11 witness: a POST whose body carries a date is answered 201 after the
\* clock has advanced.
C11_Witness ==
  /\ IsAppend /\ last.status = 201
  /\ "date" \in DOMAIN last.reqBody
  /\ last.ms > 0

IsPlain(err) == err # NoError /\ ~IsBoom(err)
ErrorPage(statusCode) == IF statusCode >= 500 THEN "/errors/500" ELSE "/errors/400"

\* C14: for a thrown error with a structured payload the response status
\* is the payload's statusCode and the body is the server error page from
\* 500 up and the client error page below, with exactly the payload's
\* statusCode, error and message as props.
C14_BoomErrorTranslated ==
  (last.thrown # NoError /\ IsBoom(last.thrown)) =>
    /\ last.status = last.thrown.statusCode
    /\ last.body =
         RenderToHTML(ErrorPage(last.thrown.statusCode),
                      [statusCode |-> last.thrown.statusCode,
                       error |-> last.thrown.error,
                       message |-> last.thrown.message],
                      StaticMarkup)

\* C14 witness: a Boom error of status 500 has been rendered.
C14_Witness ==
  /\ last.route = "ANY"
  /\ last.thrown.statusCode = 500
  /\ last.body.page = "/errors/500"

\* C15: an unexpected error gives a 5xx response with the generic message,
\* and no prop of the rendered page is the message of the error.
C15_UnexpectedErrorNotLeaked ==
  IsPlain(last.thrown) =>
    /\ last.status \in 500..599
    /\ last.body.page = "/errors/500"
    /\ last.body.props.message = InternalPayload.message
    /\ last.body.props.message # last.thrown.message
    /\ last.body.props.error # last.thrown.message
    /\ DOMAIN last.body.props = {"statusCode", "error", "message"}

\* C15 witness: the engine failed on the Comments page of a session that
\* holds a comment.
C15_Witness ==
  /\ last.route = "GET /comments"
  /\ IsPlain(last.thrown)
  /\ last.thrown.message \in EngineMessages
  /\ Len(CommentsOrEmpty(last.before)) = 1

\* The handler of the last request had to throw.
MustThrow ==
  \/ IsAppend /\ ~ToBoolean(SentText)
  \/ last.route = "GET /" /\ last.ctx.failing.page = "/Home"
  \/ last.route = "GET /comments" /\ last.ctx.failing.page = "/Comments"
  \/ last.route = "ANY"

\* C16: a request whose handler raises an error has the error translated
\* exactly once, one page rendered and one response written; the handlers
\* do not recover: whenever a handler has to throw, the error reaches the
\* boundary, and nothing is translated when nothing was thrown.
C16_TranslatedExactlyOnce ==
  last.route # "none" =>
    /\ MustThrow => last.thrown # NoError
    /\ last.thrown # NoError =>
         /\ last.ctx.translated = 1
         /\ last.ctx.renders = 1
         /\ last.ctx.writers = <<[by |-> "koa", respond |-> TRUE]>>
         /\ last.body.page \in {"/errors/400", "/errors/500"}
    /\ last.thrown = NoError => last.ctx.translated = 0

\* C16 witness: a rejected POST /api/comments has been answered.
C16_Witness ==
  /\ IsAppend /\ last.thrown = BadData("Empty comments not allowed")
  /\ last.ctx.translated = 1 /\ last.ctx.renders = 1

\* The context of the last request as the handler received it.
CtxBefore ==
  [NewCtx(last.before, last.reqBody) EXCEPT !.failing = last.ctx.failing]
\* What the view of the last request asks ctx.render for.
ViewHTML ==
  IF last.route = "GET /"
  THEN RenderToHTML("/Home", EmptyObject, NoOptions)
  ELSE RenderToHTML("/Comments",
                    Field("comments", CommentsOrEmpty(last.before)), NoOptions)
Rendered == IsView /\ last.thrown = NoError

C20_AssetsWrittenByEngineOnly ==
  last.route = "GET /_next/*" =>
    /\ last.ctx.writers = <<[by |-> "next", respond |-> FALSE]>>
    /\ last.ctx.body = NoBody /\ last.ctx.renders = 0
    /\ last.after = last.before
    /\ cookie[last.session] = last.before
    /\ log[last.session] = last.logBefore

\* C20 witness: an asset request of a session that holds a comment.
C20_Witness ==
  /\ last.route = "GET /_next/*"
  /\ Len(CommentsOrEmpty(last.before)) = 1
  /\ last.ctx.respond = FALSE

\* The last submit has finished and its POST had succeeded.
SubmitPosted == page.pc = "idle" /\ page.outcome \in {"done", "get-failed"}

\* C17 as stated: once the POST of a submit has succeeded, the displayed
\* list is the answer of a GET /api/comments issued after that POST, and no
\* entry is ever displayed that the page made up itself.
C17_ReconciledAfterEveryPost ==
  /\ SubmitPosted =>
       /\ page.got # NoData /\ page.posted # NoData
       /\ page.comments = page.got[1]
       /\ Contains(page.comments, page.posted[1])
  /\ page.pc # "closed" => page.comments \in {page.props} \cup {page.got[i] : i \in DOMAIN page.got}

\* C17 amended: that holds of a submit whose follow-up GET succeeded too;
\* when the GET fails the displayed list stays as it was before the submit
\* and the error is set.  At all times the displayed list is the props the
\* page was rendered with or the answer of a GET.
C17_ReconciledWhenGetSucceeds ==
  /\ (page.pc = "idle" /\ page.outcome = "done") =>
       /\ page.got # NoData /\ page.posted # NoData
       /\ page.comments = page.got[1]
       /\ Contains(page.comments, page.posted[1])
  /\ (page.pc = "idle" /\ page.outcome = "get-failed") =>
       /\ page.comments = page.shown
       /\ page.error # "null"
  /\ page.pc = "getting" => page.comments = page.shown
  /\ page.pc # "closed" => page.comments \in {page.props} \cup {page.got[i] : i \in DOMAIN page.got}

\* C17 witness: a submit has finished, and the list it displays holds the
\* comment it posted after one that another tab posted in between.
C17_Witness ==
  /\ page.pc = "idle" /\ page.outcome = "done"
  /\ Len(page.comments) = 2 /\ page.shown = << >>
  /\ page.comments[2] = page.posted[1]

\* No request is on its way and no response is on its way back.
Quiet == wire = NoWire

\* C21 as stated: once the POSTs sent under one token have returned 201,
\* GET /api/comments of that session holds every comment they created.
C21_NoLostUpdate ==
  Quiet =>
    \A s \in Sessions : \A i \in 1..Len(log[s]) :
      Contains(ListOf(cookie[s]), log[s][i])

Open == page.pc # "closed"
InFlight == page.pc \in {"posting", "getting"}

\* C22: loading is true exactly while handleSubmit is between its start and
\* its end, on every path it is false once handleSubmit has finished, and
\* when the requests settle a loading page always comes to be not loading.
C22_LoadingSetAndReset ==
  /\ [](Open => /\ page.loading <=> InFlight
                /\ page.loading <=> page.running > 0)
  /\ (Open /\ page.loading) ~> (Open /\ ~page.loading)

\* C22 witness: a submit whose follow-up GET failed has finished and the
\* page is not loading.
C22_Witness ==
  /\ page.pc = "idle" /\ page.outcome = "get-failed"
  /\ ~page.loading /\ page.running = 0

\* C23: a submit with an empty text issues no request (every request a
\* submit issues carries a text that is not empty), leaves the displayed
\* comments as they were and sets the error "Empty comment not allowed".
C23_EmptySubmitSendsNothing ==
  Open =>
    /\ page.requests # << >> => page.sent # ""
    /\ page.outcome = "empty" =>
         /\ page.pc = "idle" /\ page.requests = << >>
         /\ page.comments = page.shown
         /\ page.error = "Empty comment not allowed"

\* C23 witness: an empty text has been submitted on a page that displays a
\* comment.
C23_Witness ==
  /\ page.pc = "idle" /\ page.outcome = "empty" /\ page.text = ""
  /\ Len(page.comments) = 1
  /\ page.requests = << >>

\* C24: the step that ends a submit after a request failed leaves the
\* displayed comments and the typed text as they were and sets the error;
\* the step that ends it with success sets the displayed comments to the
\* answer of the GET, the text to the empty string and the error to null.
C24_SubmitFrame ==
  [][(InFlight /\ page'.pc = "idle") =>
       IF page'.outcome = "done"
       THEN /\ last'.route = "GET /api/comments"
            /\ page'.comments = last'.body
            /\ page'.text = "" /\ page'.error = "null"
       ELSE /\ page'.outcome \in {"post-failed", "get-failed"}
            /\ page'.comments = page.comments
            /\ page'.text = page.text
            /\ page'.error # "null"]_vars

\* C24 witness: the follow-up GET of a submit has failed; the typed text is
\* still there and the stored comment is not displayed.
C24_Witness ==
  /\ page.pc = "idle" /\ page.outcome = "get-failed"
  /\ page.text = "a" /\ page.error = "Network Error"
  /\ page.comments = << >> /\ Len(log[PageSession]) = 1

\* C25: at most one handleSubmit call is running; while one is running the
\* page is loading and the submit control is disabled, and the requests of
\* the running submit are its POST followed by its GET.
C25_OneSubmitInFlight ==
  Open =>
    /\ page.running <= 1
    /\ page.running = 1 => page.loading /\ ~SubmitEnabled(page)
    /\ IsPrefix(page.requests, <<"POST /api/comments", "GET /api/comments">>)

\* C25 witness: a submit is waiting for its GET while another text has
\* been typed.
C25_Witness ==
  /\ page.pc = "getting" /\ page.running = 1
  /\ page.text # page.sent
  /\ page.requests = <<"POST /api/comments", "GET /api/comments">>

\* The handler of POST /api/comments accepts the text.
ServerAccepts(text) ==
  LET reqBody == Field("comment", Str(text))
  IN HandleApiAppend(NewCtx(cookie[PageSession], reqBody), now).thrown = NoError

\* C26: for every text the page can hold, a submit posts it if and only
\* if the handler of POST /api/comments accepts it, and no POST of the page
\* is rejected.
C26_ValidationsAgree ==
  /\ page.pc = "idle" =>
       \A text \in PageTexts :
         SubmitStart([page EXCEPT !.text = text]).pc = "posting"
           <=> ServerAccepts(text)
  /\ (Open /\ IsAppend) => last.status = 201 /\ last.thrown = NoError

\* C26 witness: the page has posted a text of spaces and the server has
\* created the comment.
C26_Witness ==
  /\ page.pc = "getting" /\ page.sent = "   "
  /\ IsAppend /\ SentText = Str("   ") /\ last.status = 201

\* C27 as stated: whatever error renderBoomError is given, the statusCode
\* prop of the rendered page is the status of the response and the page is
\* errors/500 from status 500 up and errors/400 below.
C27_StatusPropIsStatus ==
  last.thrown # NoError =>
    /\ last.body.props.statusCode = last.status
    /\ last.body.page = ErrorPage(last.status)

\* C28: the page mounts with the props ctx.render was given: its first
\* displayed list is the comment sequence of the session when GET /comments
\* rendered it.
C28_InitialPropsAreRenderProps ==
  [][(page.pc = "closed" /\ page'.pc # "closed") =>
       /\ last'.route = "GET /comments"
       /\ last'.body.props = Field("comments", page'.comments)
       /\ page'.comments = CommentsOrEmpty(cookie[PageSession])
       /\ page'.props = page'.comments]_vars

\* C28 witness: the page has been opened on a session that held two
\* comments and displays them.
C28_Witness ==
  /\ page.pc = "idle" /\ page.outcome = "none"
  /\ last.route = "GET /comments"
  /\ Len(page.comments) = 2 /\ page.comments = log[PageSession]

====
